---------------------------- MODULE Spec2Model ----------------------------
(***************************************************************************)
(* Model of scripts/llm_diff_analyzer.py: the cosmetic-key canonicalizer   *)
(* (strip_ignored), the graph extractor (get_graph_data) and the           *)
(* structural diff and diagram renderer (build_change_diagram).            *)
(*                                                                         *)
(* Python values are modelled as records of one uniform shape:             *)
(*   tag : "null" | "str" | "int" | "map" | "seq"                          *)
(*   s   : the characters of a str, the digits of an int                   *)
(*   m   : a dict, as a function from its keys to values                   *)
(*   l   : a list, as a sequence of values                                 *)
(* Python strings that the code concatenates, sorts or rewrites are        *)
(* sequences of one-character strings; dict keys are TLA+ strings.         *)
(***************************************************************************)
EXTENDS Integers, Sequences, FiniteSets, TLC

VARIABLES
    pc,           \* position of the call being modelled
    value,        \* argument of strip_ignored
    stripped,     \* result of strip_ignored, and of applying it twice
    data,         \* argument of get_graph_data
    extracted,    \* outcome of get_graph_data
    before_data,  \* first argument of build_change_diagram
    after_data,   \* second argument of build_change_diagram
    cls,          \* lines 191-224: indexes and classification sets
    sel,          \* lines 229-265: context edges, edges and nodes to draw
    out,          \* lines 270-325: node lines, edge lines, link styles
    result        \* what build_change_diagram returns

vars == <<pc, value, stripped, data, extracted, before_data, after_data,
          cls, sel, out, result>>

----------------------------------------------------------------------------
(* Python values *)

NoMap == <<>>

Null == [tag |-> "null", s |-> <<>>, m |-> NoMap, l |-> <<>>]

StrV(cs) == [tag |-> "str", s |-> cs, m |-> NoMap, l |-> <<>>]

IntV(ds) == [tag |-> "int", s |-> ds, m |-> NoMap, l |-> <<>>]

MapV(f) == [tag |-> "map", s |-> <<>>, m |-> f, l |-> <<>>]

SeqV(q) == [tag |-> "seq", s |-> <<>>, m |-> NoMap, l |-> q]

EmptyMap == MapV(NoMap)

EmptySeq == SeqV(<<>>)

EmptyStr == StrV(<<>>)

\* isinstance(v, dict) / isinstance(v, list) / v is None
IsDict(v) == v.tag = "map"

IsList(v) == v.tag = "seq"

IsNone(v) == v.tag = "null"

\* bool(v): None, "", 0, {} and [] are falsy
Truthy(v) ==
    CASE v.tag = "null" -> FALSE
      [] v.tag = "str"  -> v.s # <<>>
      [] v.tag = "int"  -> v.s # <<"0">>
      [] v.tag = "map"  -> DOMAIN v.m # {}
      [] v.tag = "seq"  -> v.l # <<>>

\* a or b
PyOr(a, b) == IF Truthy(a) THEN a ELSE b

\* d.get(key, default) on a dict d
Get(d, key, default) == IF key \in DOMAIN d.m THEN d.m[key] ELSE default

\* str(v) for the scalars: str(None) is "None", str("x") is "x", str(1) is "1"
PyStr(v) ==
    CASE v.tag = "null" -> <<"N", "o", "n", "e">>
      [] v.tag = "str"  -> v.s
      [] v.tag = "int"  -> v.s

----------------------------------------------------------------------------
(* strip_ignored *)

IGNORED_KEYS ==
    {"position", "positionAbsolute", "width", "height", "selected",
     "zIndex", "viewport", "sourcePosition", "targetPosition"}

RECURSIVE strip_ignored_shallow(_)
\* a canonicalizer that strips the keys of a mapping but does not descend
\* into the values it keeps
strip_ignored_shallow(v) ==
    IF IsDict(v)
    THEN MapV([key \in (DOMAIN v.m) \ IGNORED_KEYS |-> v.m[key]])
    ELSE IF IsList(v)
    THEN SeqV([i \in 1..Len(v.l) |-> strip_ignored_shallow(v.l[i])])
    ELSE v

RECURSIVE strip_ignored(_)
strip_ignored(v) ==
    IF IsDict(v)
    THEN MapV([key \in (DOMAIN v.m) \ IGNORED_KEYS |-> strip_ignored(v.m[key])])
    ELSE IF IsList(v)
    THEN SeqV([i \in 1..Len(v.l) |-> strip_ignored(v.l[i])])
    ELSE v

----------------------------------------------------------------------------
(* get_graph_data *)

\* The outcome of a call: raised is TRUE when the call ends in an
\* AttributeError (None, a list or a scalar has no attribute 'get').
Returned(nodes, edges) == [raised |-> FALSE, nodes |-> nodes, edges |-> edges]

Raised == [raised |-> TRUE, nodes |-> <<>>, edges |-> <<>>]

get_graph_data(root) ==
    LET workflow == IF IsDict(root) THEN Get(root, "workflow", EmptyMap) ELSE EmptyMap
        graph    == IF IsDict(workflow) THEN Get(workflow, "graph", EmptyMap) ELSE EmptyMap
    IN  IF ~IsDict(graph)
        THEN Raised
        ELSE LET nodes == Get(graph, "nodes", EmptySeq)
                 edges == Get(graph, "edges", EmptySeq)
             IN  Returned(IF IsList(nodes) THEN nodes.l ELSE <<>>,
                          IF IsList(edges) THEN edges.l ELSE <<>>)

----------------------------------------------------------------------------
(* Python str operations used by build_change_diagram *)

\* The characters that occur in ids and keys, in code-point order: sorted()
\* compares strings character by character by code point.
CharOrder ==
    <<"-", "0", "1", "2", "3", ">", "A", "B", "C", "D", "E", "N", "T", "_",
      "e", "n", "o">>

Ord(c) == CHOOSE i \in 1..Len(CharOrder) : CharOrder[i] = c

\* a < b on str
StrLess(a, b) ==
    LET n    == IF Len(a) < Len(b) THEN Len(a) ELSE Len(b)
        diff == {i \in 1..n : a[i] # b[i]}
    IN  IF diff = {}
        THEN Len(a) < Len(b)
        ELSE LET i == CHOOSE j \in diff : \A k \in diff : j <= k
             IN  Ord(a[i]) < Ord(b[i])

RECURSIVE sorted(_)
\* sorted(S) for a set S of str
sorted(S) ==
    IF S = {}
    THEN <<>>
    ELSE LET lo == CHOOSE x \in S : \A y \in S \ {x} : StrLess(x, y)
         IN  <<lo>> \o sorted(S \ {lo})

\* [A-Za-z0-9_]
WordChars ==
    {"A", "B", "C", "D", "E", "F", "G", "H", "I", "J", "K", "L", "M", "N",
     "O", "P", "Q", "R", "S", "T", "U", "V", "W", "X", "Y", "Z",
     "a", "b", "c", "d", "e", "f", "g", "h", "i", "j", "k", "l", "m", "n",
     "o", "p", "q", "r", "s", "t", "u", "v", "w", "x", "y", "z",
     "0", "1", "2", "3", "4", "5", "6", "7", "8", "9", "_"}

\* "n_" + re.sub(r"[^A-Za-z0-9_]", "_", str(raw_id)), raw_id a str
mermaid_id(raw_id) ==
    <<"n", "_">> \o
    [i \in 1..Len(raw_id) |-> IF raw_id[i] \in WordChars THEN raw_id[i] ELSE "_"]

Whitespace == {" ", "\t", "\n", "\r"}

RECURSIVE LStrip(_)
LStrip(cs) ==
    IF cs # <<>> /\ Head(cs) \in Whitespace THEN LStrip(Tail(cs)) ELSE cs

RECURSIVE RStrip(_)
RStrip(cs) ==
    IF cs # <<>> /\ cs[Len(cs)] \in Whitespace
    THEN RStrip(SubSeq(cs, 1, Len(cs) - 1))
    ELSE cs

\* label.replace('"', "'").strip()
Sanitize(cs) ==
    LStrip(RStrip([i \in 1..Len(cs) |-> IF cs[i] = "\"" THEN "'" ELSE cs[i]]))

\* node a dict whose "data", when present, is a dict
node_label(node_id, node) ==
    LET d         == IF IsDict(node) THEN Get(node, "data", EmptyMap) ELSE EmptyMap
        title     == Get(d, "title", Null)
        node_type == Get(d, "type", Null)
        label     == IF Truthy(title) /\ Truthy(node_type)
                     THEN PyStr(title) \o <<"<", "b", "r", "/", ">", "(">>
                          \o PyStr(node_type) \o <<")">>
                     ELSE IF Truthy(title) THEN PyStr(title)
                     ELSE IF Truthy(node_type) THEN PyStr(node_type)
                     ELSE node_id
    IN  Sanitize(label)

edge_key(edge) ==
    IF ~IsDict(edge)
    THEN <<>>
    ELSE LET edge_id == Get(edge, "id", Null)
         IN  IF Truthy(edge_id)
             THEN PyStr(edge_id)
             ELSE PyStr(Get(edge, "source", EmptyStr)) \o <<"-", ">">>
                  \o PyStr(Get(edge, "target", EmptyStr))

\* str(edge.get("source", "")), str(edge.get("target", ""))
SourceStr(edge) == PyStr(Get(edge, "source", EmptyStr))

TargetStr(edge) == PyStr(Get(edge, "target", EmptyStr))

\* index.get(key) on the dicts old_nodes, new_nodes, old_edges, new_edges
DictGet(index, key) == IF key \in DOMAIN index THEN index[key] ELSE Null

\* the largest of a non-empty set of positions
Last(I) == CHOOSE i \in I : \A j \in I : j <= i

\* {str(n.get("id")): n for n in nodes_list
\*     if isinstance(n, dict) and n.get("id") is not None}
NodeIndex(nodes_list) ==
    LET ok    == {i \in 1..Len(nodes_list) :
                     /\ IsDict(nodes_list[i])
                     /\ ~IsNone(Get(nodes_list[i], "id", Null))}
        id(i) == PyStr(Get(nodes_list[i], "id", Null))
    IN  [k \in {id(i) : i \in ok} |-> nodes_list[Last({i \in ok : id(i) = k})]]

\* {edge_key(e): e for e in edges_list if edge_key(e)}
EdgeIndex(edges_list) ==
    LET ok == {i \in 1..Len(edges_list) : edge_key(edges_list[i]) # <<>>}
    IN  [k \in {edge_key(edges_list[i]) : i \in ok} |->
            edges_list[Last({i \in ok : edge_key(edges_list[i]) = k})]]

\* the values of a list
Elems(q) == {q[i] : i \in 1..Len(q)}

----------------------------------------------------------------------------
(* build_change_diagram, lines 191-227: indexes and classification *)

\* ids present only in the after snapshot, without removing the common ones
AddedKeepsCommon(new_ids, old_ids) == new_ids

\* new_node_ids - old_node_ids, new_edge_keys - old_edge_keys
Added(new_ids, old_ids) == new_ids \ old_ids

\* old_node_ids - new_node_ids, old_edge_keys - new_edge_keys
Removed(new_ids, old_ids) == old_ids \ new_ids

\* a comparison of the raw values, cosmetic keys included
ModifiedRaw(old_index, new_index) ==
    {k \in (DOMAIN old_index) \cap (DOMAIN new_index) :
        old_index[k] # new_index[k]}

\* {k for k in common if strip_ignored(old.get(k)) != strip_ignored(new.get(k))}
Modified(old_index, new_index) ==
    {k \in (DOMAIN old_index) \cap (DOMAIN new_index) :
        strip_ignored(DictGet(old_index, k)) # strip_ignored(DictGet(new_index, k))}

Classification(old_nodes_list, old_edges_list, new_nodes_list, new_edges_list) ==
    LET old_nodes == NodeIndex(old_nodes_list)
        new_nodes == NodeIndex(new_nodes_list)
        old_edges == EdgeIndex(old_edges_list)
        new_edges == EdgeIndex(new_edges_list)
    IN  [old_nodes      |-> old_nodes,
         new_nodes      |-> new_nodes,
         old_edges      |-> old_edges,
         new_edges      |-> new_edges,
         added_nodes    |-> Added(DOMAIN new_nodes, DOMAIN old_nodes),
         removed_nodes  |-> Removed(DOMAIN new_nodes, DOMAIN old_nodes),
         modified_nodes |-> Modified(old_nodes, new_nodes),
         added_edges    |-> Added(DOMAIN new_edges, DOMAIN old_edges),
         removed_edges  |-> Removed(DOMAIN new_edges, DOMAIN old_edges),
         modified_edges |-> Modified(old_edges, new_edges)]

\* the early return that looks at the node classes only
NothingChangedNodesOnly(c) ==
    c.added_nodes \cup c.removed_nodes \cup c.modified_nodes = {}

\* not (added_nodes or removed_nodes or modified_nodes
\*      or added_edges or removed_edges or modified_edges)
NothingChanged(c) ==
    /\ c.added_nodes = {} /\ c.removed_nodes = {} /\ c.modified_nodes = {}
    /\ c.added_edges = {} /\ c.removed_edges = {} /\ c.modified_edges = {}

----------------------------------------------------------------------------
(* build_change_diagram, lines 229-268: what to draw *)

\* the keys of the dict edges of a list that have an endpoint in ids
TouchingKeys(edges_list, ids) ==
    {edge_key(e) : e \in {x \in Elems(edges_list) :
                            /\ IsDict(x)
                            /\ (SourceStr(x) \in ids \/ TargetStr(x) \in ids)
                            /\ edge_key(x) # <<>>}}

\* context edges taken around added and removed nodes only
context_edges_no_modified(c, old_edges_list, new_edges_list) ==
    (IF c.added_nodes # {}
     THEN TouchingKeys(new_edges_list, c.added_nodes)
     ELSE {})
    \cup
    (IF c.removed_nodes # {}
     THEN TouchingKeys(old_edges_list, c.removed_nodes)
     ELSE {})

context_edges(c, old_edges_list, new_edges_list) ==
    (IF c.added_nodes # {} \/ c.modified_nodes # {}
     THEN TouchingKeys(new_edges_list, c.added_nodes \cup c.modified_nodes)
     ELSE {})
    \cup
    (IF c.removed_nodes # {}
     THEN TouchingKeys(old_edges_list, c.removed_nodes)
     ELSE {})

\* old_edges.get(key) if key in removed_edges
\*     else new_edges.get(key) or old_edges.get(key)
EdgeInstance(c, key) ==
    IF key \in c.removed_edges
    THEN DictGet(c.old_edges, key)
    ELSE PyOr(DictGet(c.new_edges, key), DictGet(c.old_edges, key))

edges_to_draw_list(c, context) ==
    LET edges_to_draw == c.added_edges \cup c.removed_edges
                         \cup c.modified_edges \cup context
        Drawn(key)    == Truthy(EdgeInstance(c, key))
        keys          == SelectSeq(sorted(edges_to_draw), Drawn)
    IN  [i \in 1..Len(keys) |-> [key |-> keys[i], edge |-> EdgeInstance(c, keys[i])]]

\* the str of the endpoints of the listed edges that are not None
Endpoints(list) ==
    {PyStr(Get(list[i].edge, "source", Null)) :
        i \in {j \in 1..Len(list) : ~IsNone(Get(list[j].edge, "source", Null))}}
    \cup
    {PyStr(Get(list[i].edge, "target", Null)) :
        i \in {j \in 1..Len(list) : ~IsNone(Get(list[j].edge, "target", Null))}}

\* a render set without the endpoints of the edges
nodes_to_draw_changed_only(c, list) ==
    c.added_nodes \cup c.removed_nodes \cup c.modified_nodes

nodes_to_draw(c, list) ==
    c.added_nodes \cup c.removed_nodes \cup c.modified_nodes \cup Endpoints(list)

Selection(c, old_edges_list, new_edges_list) ==
    LET context == context_edges(c, old_edges_list, new_edges_list)
        list    == edges_to_draw_list(c, context)
    IN  [context_edges      |-> context,
         edges_to_draw_list |-> list,
         nodes_to_draw      |-> nodes_to_draw(c, list)]

----------------------------------------------------------------------------
(* build_change_diagram, lines 270-327: the diagram *)

\* "added" / "removed" / "modified", or "" for no class
ClassOf(key, added, removed, modified) ==
    IF key \in added THEN "added"
    ELSE IF key \in removed THEN "removed"
    ELSE IF key \in modified THEN "modified"
    ELSE ""

\* a lookup in the after snapshot only
NodeInstanceNewOnly(c, node_id) == DictGet(c.new_nodes, node_id)

\* new_nodes.get(node_id) or old_nodes.get(node_id)
NodeInstance(c, node_id) ==
    PyOr(DictGet(c.new_nodes, node_id), DictGet(c.old_nodes, node_id))

\* one line f'{mermaid_id(node_id)}["{label}"]', with f":::{node_class}"
\* appended when there is a class
node_lines(c, to_draw) ==
    LET Known(node_id) == Truthy(NodeInstance(c, node_id))
        ids            == SelectSeq(sorted(to_draw), Known)
    IN  [i \in 1..Len(ids) |->
            [ident      |-> mermaid_id(ids[i]),
             label      |-> node_label(ids[i], NodeInstance(c, ids[i])),
             node_class |-> ClassOf(ids[i], c.added_nodes, c.removed_nodes,
                                    c.modified_nodes)]]

RECURSIVE EdgeLoopCountingSkipped(_, _, _, _)
\* the loop with edge_index advanced for a skipped edge too
EdgeLoopCountingSkipped(c, todo, acc, edge_index) ==
    IF todo = <<>>
    THEN acc
    ELSE LET key    == Head(todo).key
             edge   == Head(todo).edge
             source == SourceStr(edge)
             target == TargetStr(edge)
         IN  IF source = <<>> \/ target = <<>>
             THEN EdgeLoopCountingSkipped(c, Tail(todo), acc, edge_index + 1)
             ELSE LET style_class == ClassOf(key, c.added_edges, c.removed_edges,
                                             c.modified_edges)
                      line        == [source |-> mermaid_id(source),
                                      target |-> mermaid_id(target)]
                  IN  EdgeLoopCountingSkipped(c, Tail(todo),
                          [edge_lines  |-> Append(acc.edge_lines, line),
                           link_styles |->
                               IF style_class # ""
                               THEN Append(acc.link_styles,
                                           [index       |-> edge_index,
                                            style_class |-> style_class])
                               ELSE acc.link_styles],
                          edge_index + 1)

RECURSIVE EdgeLoop(_, _, _, _)
\* for key, edge in edges_to_draw_list: ... (lines 291-306); acc holds
\* edge_lines and link_styles
EdgeLoop(c, todo, acc, edge_index) ==
    IF todo = <<>>
    THEN acc
    ELSE LET key    == Head(todo).key
             edge   == Head(todo).edge
             source == SourceStr(edge)
             target == TargetStr(edge)
         IN  IF source = <<>> \/ target = <<>>
             THEN EdgeLoop(c, Tail(todo), acc, edge_index)
             ELSE LET style_class == ClassOf(key, c.added_edges, c.removed_edges,
                                             c.modified_edges)
                      line        == [source |-> mermaid_id(source),
                                      target |-> mermaid_id(target)]
                  IN  EdgeLoop(c, Tail(todo),
                          [edge_lines  |-> Append(acc.edge_lines, line),
                           link_styles |->
                               IF style_class # ""
                               THEN Append(acc.link_styles,
                                           [index       |-> edge_index,
                                            style_class |-> style_class])
                               ELSE acc.link_styles],
                          edge_index + 1)

\* the stroke of f"linkStyle {index} stroke:...,stroke-width:2px;"
Stroke(style_class) ==
    CASE style_class = "added"    -> "#10B981"
      [] style_class = "removed"  -> "#EF4444"
      [] style_class = "modified" -> "#F59E0B"

\* the linkStyle lines appended to diagram_lines (lines 317-325)
link_style_lines(link_styles) ==
    [i \in 1..Len(link_styles) |->
        [index  |-> link_styles[i].index,
         stroke |-> Stroke(link_styles[i].style_class),
         dashed |-> link_styles[i].style_class = "removed"]]

\* diagram_lines after the header: node lines, edge lines, linkStyle lines
Diagram(c, s) ==
    LET loop == EdgeLoop(c, s.edges_to_draw_list,
                         [edge_lines |-> <<>>, link_styles |-> <<>>], 0)
    IN  [node_lines  |-> node_lines(c, s.nodes_to_draw),
         edge_lines  |-> loop.edge_lines,
         link_styles |-> link_style_lines(loop.link_styles)]

----------------------------------------------------------------------------
(* Inputs *)

\* the largest number of edges in one snapshot's edge list
MaxEdges == 2

\* the largest number of values (mappings, sequences and scalars, nested
\* ones counted) in an argument of strip_ignored
MaxSize == 4

Ch(c) == <<c>>

\* workflow.graph.nodes and workflow.graph.edges of a document
Doc(nodes, edges) ==
    MapV("workflow" :>
        MapV("graph" :> MapV(("nodes" :> SeqV(nodes)) @@ ("edges" :> SeqV(edges)))))

\* node "A": a title and a type, a model setting, a layout position
NodeA(model, position, selected) ==
    MapV(("id" :> StrV(Ch("A")))
         @@ ("data" :> MapV(("title" :> StrV(Ch("T")))
                            @@ ("type" :> StrV(<<"l", "l", "m">>))
                            @@ ("model" :> IntV(Ch(model)))
                            @@ (IF selected THEN "selected" :> IntV(Ch("1")) ELSE NoMap)))
         @@ ("position" :> IntV(Ch(position))))

\* node "B": a type only
NodeB ==
    MapV(("id" :> StrV(Ch("B")))
         @@ ("data" :> MapV("type" :> StrV(<<"e", "n", "d">>)))
         @@ ("position" :> IntV(Ch("1"))))

\* the versions of node A: as is, moved and selected, with another model
NodeAVersions == {NodeA("1", "1", FALSE), NodeA("1", "2", TRUE), NodeA("2", "1", FALSE)}

NodeLists ==
    {a \o b : a \in {<<>>} \cup {<<n>> : n \in NodeAVersions},
              b \in {<<>>, <<NodeB>>}}

\* an edge without an id, hence keyed "source->target"
PlainEdge(source, target, cosmetic) ==
    MapV(("source" :> StrV(source)) @@ ("target" :> StrV(target))
         @@ ("data" :> MapV(IF cosmetic THEN "sourcePosition" :> IntV(Ch("1")) ELSE NoMap))
         @@ (IF cosmetic THEN "zIndex" :> IntV(Ch("1")) ELSE NoMap))

\* an edge keyed by its id
IdEdge(id, source, target) ==
    MapV(("id" :> StrV(id)) @@ ("source" :> StrV(source)) @@ ("target" :> StrV(target)))

\* The edges a snapshot draws from: A->B, A->B with layout attributes, e1
\* from A to B, e1 rewired from A to A, e0 without a target, and {}.
EdgePool ==
    << PlainEdge(Ch("A"), Ch("B"), FALSE),
       PlainEdge(Ch("A"), Ch("B"), TRUE),
       IdEdge(<<"e", "1">>, Ch("A"), Ch("B")),
       IdEdge(<<"e", "1">>, Ch("A"), Ch("A")),
       MapV(("id" :> StrV(<<"e", "0">>)) @@ ("source" :> StrV(Ch("A")))),
       EmptyMap >>

\* the k-th smallest member of a set of positions
Kth(I, k) == CHOOSE i \in I : Cardinality({j \in I : j <= i}) = k

\* the sublists of pool of at most max entries
SubLists(pool, max) ==
    {[k \in 1..Cardinality(I) |-> pool[Kth(I, k)]] :
        I \in {J \in SUBSET (1..Len(pool)) : Cardinality(J) <= max}}

EdgeLists == SubLists(EdgePool, MaxEdges)

Docs == {Doc(nodes, edges) : nodes \in NodeLists, edges \in EdgeLists}

----------------------------------------------------------------------------
(* build_change_diagram as a state machine *)

NoClassification == Classification(<<>>, <<>>, <<>>, <<>>)

NoSelection == [context_edges |-> {}, edges_to_draw_list |-> <<>>, nodes_to_draw |-> {}]

NoDiagram == [node_lines |-> <<>>, edge_lines |-> <<>>, link_styles |-> <<>>]

NotExtracted == Returned(<<>>, <<>>)

NotStripped == [once |-> Null, twice |-> Null]

InitDiff ==
    /\ pc = "start"
    /\ before_data \in Docs
    /\ after_data \in Docs
    /\ cls = NoClassification
    /\ sel = NoSelection
    /\ out = NoDiagram
    /\ result = "pending"
    /\ value = Null
    /\ stripped = NotStripped
    /\ data = Null
    /\ extracted = NotExtracted

\* lines 190-327: the whole call
BuildChangeDiagram ==
    /\ pc = "start"
    /\ \E old \in {get_graph_data(before_data)}, new \in {get_graph_data(after_data)} :
           IF old.raised \/ new.raised
           THEN /\ pc' = "raised"
                /\ result' = "AttributeError"
                /\ UNCHANGED <<cls, sel, out>>
           ELSE \E c \in {Classification(old.nodes, old.edges, new.nodes, new.edges)} :
                    /\ pc' = "returned"
                    /\ cls' = c
                    /\ IF NothingChanged(c)
                       THEN \* line 227
                            /\ result' = "None"
                            /\ UNCHANGED <<sel, out>>
                       ELSE \E s \in {Selection(c, old.edges, new.edges)} :
                            /\ sel' = s
                            /\ IF s.nodes_to_draw = {}
                               THEN \* line 268
                                    /\ result' = "None"
                                    /\ out' = out
                               ELSE \* line 327
                                    /\ result' = "diagram"
                                    /\ out' = Diagram(c, s)
    /\ UNCHANGED <<value, stripped, data, extracted, before_data, after_data>>

Next == BuildChangeDiagram

Spec == InitDiff /\ [][Next]_vars

----------------------------------------------------------------------------
(* Scenario B of the specification, over any three distinct node ids *)

IdPool == {Ch("A"), Ch("B"), Ch("C"), Ch("D"), Ch("E")}

\* a node with a type and a layout position
PlainNode(id) ==
    MapV(("id" :> StrV(id))
         @@ ("data" :> MapV("type" :> StrV(<<"l", "l", "m">>)))
         @@ ("position" :> IntV(Ch("1"))))

\* the edge from source to target, keyed by the id when one is given and by
\* "source->target" otherwise
ScenarioEdge(id, source, target) ==
    IF id = <<>>
    THEN MapV(("source" :> StrV(source)) @@ ("target" :> StrV(target)))
    ELSE IdEdge(id, source, target)

InitScenarioB ==
    /\ pc = "start"
    /\ \E a \in IdPool :
       \E b \in IdPool \ {a} :
       \E c \in IdPool \ {a, b} :
       \E ids \in {<<<<>>, <<>>>>,
                   <<<<"e", "1">>, <<"e", "2">>>>,
                   <<<<"e", "2">>, <<"e", "1">>>>} :
          /\ before_data = Doc(<<PlainNode(a), PlainNode(b)>>,
                               <<ScenarioEdge(ids[1], a, b)>>)
          /\ after_data = Doc(<<PlainNode(a), PlainNode(b), PlainNode(c)>>,
                              <<ScenarioEdge(ids[1], a, b), ScenarioEdge(ids[2], b, c)>>)
    /\ cls = NoClassification
    /\ sel = NoSelection
    /\ out = NoDiagram
    /\ result = "pending"
    /\ value = Null
    /\ stripped = NotStripped
    /\ data = Null
    /\ extracted = NotExtracted

SpecScenarioB == InitScenarioB /\ [][Next]_vars

----------------------------------------------------------------------------
(* Edges whose source or target is absent, null or the empty string *)

\* the "source" entry of an edge: absent, None, "" or the id of node A
SourceChoices ==
    {NoMap, "source" :> Null, "source" :> EmptyStr, "source" :> StrV(Ch("A"))}

\* the "target" entry of an edge: absent, None, "" or the id of node B
TargetChoices ==
    {NoMap, "target" :> Null, "target" :> EmptyStr, "target" :> StrV(Ch("B"))}

\* the edges without an id over these entries
EndpointEdges == {MapV(src @@ tgt) : src \in SourceChoices, tgt \in TargetChoices}

\* the lists of one to MaxEdges of these edges
EndpointEdgeLists ==
    UNION {[1..n -> EndpointEdges] : n \in 1..MaxEdges}

\* both snapshots hold the nodes A and B, node A possibly with another
\* model; before has no edge or A->B, after has the edges under test
InitMalformed ==
    /\ pc = "start"
    /\ \E first \in {<<>>, <<PlainEdge(Ch("A"), Ch("B"), FALSE)>>} :
          before_data = Doc(<<NodeA("1", "1", FALSE), NodeB>>, first)
    /\ \E model \in {"1", "2"} :
       \E edges \in EndpointEdgeLists :
          after_data = Doc(<<NodeA(model, "1", FALSE), NodeB>>, edges)
    /\ cls = NoClassification
    /\ sel = NoSelection
    /\ out = NoDiagram
    /\ result = "pending"
    /\ value = Null
    /\ stripped = NotStripped
    /\ data = Null
    /\ extracted = NotExtracted

SpecMalformed == InitMalformed /\ [][Next]_vars

----------------------------------------------------------------------------
(* get_graph_data on root values of any shape *)

\* what may stand where a mapping or a sequence is expected
Leaves ==
    {Null, StrV(Ch("x")), IntV(Ch("1")), EmptySeq, SeqV(<<StrV(Ch("x"))>>),
     EmptyMap, MapV("other" :> Null)}

\* the mappings with key under any of vals, the mapping without the key,
\* and the values that are no such mapping
Under(key, vals) == Leaves \cup {MapV(key :> v) : v \in vals}

GraphValues ==
    Leaves \cup {MapV(n @@ e) :
                    n \in {NoMap} \cup {"nodes" :> v : v \in Leaves},
                    e \in {NoMap} \cup {"edges" :> v : v \in Leaves}}

RootValues == Under("workflow", Under("graph", GraphValues))

InitExtract ==
    /\ pc = "call"
    /\ data \in RootValues
    /\ extracted = NotExtracted
    /\ before_data = Null
    /\ after_data = Null
    /\ cls = NoClassification
    /\ sel = NoSelection
    /\ out = NoDiagram
    /\ result = "pending"
    /\ value = Null
    /\ stripped = NotStripped

\* lines 152-157
Extract ==
    /\ pc = "call"
    /\ extracted' = get_graph_data(data)
    /\ pc' = IF get_graph_data(data).raised THEN "raised" ELSE "returned"
    /\ UNCHANGED <<value, stripped, data, before_data, after_data, cls, sel, out, result>>

NextExtract == Extract

SpecExtract == InitExtract /\ [][NextExtract]_vars

----------------------------------------------------------------------------
(* strip_ignored on nested values *)

StripScalars == {Null, IntV(Ch("1"))}

RECURSIVE ValuesOfSize(_, _)
RECURSIVE SeqsOfSize(_, _)
RECURSIVE MapsOfSize(_, _, _)

\* the values over the given keys that consist of exactly n values
ValuesOfSize(keys, n) ==
    IF n = 1
    THEN StripScalars \cup {EmptyMap, EmptySeq}
    ELSE {MapV(f) : f \in MapsOfSize(keys, 1, n - 1) \ {NoMap}}
         \cup {SeqV(q) : q \in SeqsOfSize(keys, n - 1) \ {<<>>}}

\* the sequences whose elements consist of k values in all
SeqsOfSize(keys, k) ==
    IF k = 0
    THEN {<<>>}
    ELSE UNION {{<<v>> \o rest : v \in ValuesOfSize(keys, j),
                                 rest \in SeqsOfSize(keys, k - j)} : j \in 1..k}

\* the mappings over keys[from], keys[from + 1], ... whose values consist of
\* k values in all
MapsOfSize(keys, from, k) ==
    IF k = 0
    THEN {NoMap}
    ELSE UNION {{(keys[jc[1]] :> v) @@ rest :
                    v \in ValuesOfSize(keys, jc[2]),
                    rest \in MapsOfSize(keys, jc[1] + 1, k - jc[2])} :
                jc \in (from..Len(keys)) \X (1..k)}

RECURSIVE WithKey(_, _, _)
\* v with every key old renamed to new
WithKey(v, old, new) ==
    IF IsDict(v)
    THEN MapV([k \in {IF x = old THEN new ELSE x : x \in DOMAIN v.m} |->
                  WithKey(v.m[IF k = new THEN old ELSE k], old, new)])
    ELSE IF IsList(v)
    THEN SeqV([i \in 1..Len(v.l) |-> WithKey(v.l[i], old, new)])
    ELSE v

\* the values of at most MaxSize values over the key "data" and one
\* ignored key
StripInputs ==
    LET base == UNION {ValuesOfSize(<<"data", "position">>, n) : n \in 1..MaxSize}
    IN  {WithKey(v, "position", ig) : v \in base, ig \in IGNORED_KEYS}

InitStrip ==
    /\ pc = "call"
    /\ value \in StripInputs
    /\ stripped = NotStripped
    /\ data = Null
    /\ extracted = NotExtracted
    /\ before_data = Null
    /\ after_data = Null
    /\ cls = NoClassification
    /\ sel = NoSelection
    /\ out = NoDiagram
    /\ result = "pending"

\* lines 134-143, applied to value and to its own result
Strip ==
    /\ pc = "call"
    /\ stripped' = [once  |-> strip_ignored(value),
                    twice |-> strip_ignored(strip_ignored(value))]
    /\ pc' = "returned"
    /\ UNCHANGED <<value, data, extracted, before_data, after_data, cls, sel, out, result>>

NextStrip == Strip

SpecStrip == InitStrip /\ [][NextStrip]_vars

----------------------------------------------------------------------------
(* What the claims speak of *)

BeforeNodes == get_graph_data(before_data).nodes

AfterNodes == get_graph_data(after_data).nodes

BeforeEdges == get_graph_data(before_data).edges

AfterEdges == get_graph_data(after_data).edges

\* the call has returned, the classification computed
Classified == pc = "returned"

\* the node ids of a snapshot's node list
NodeIdsOf(list) ==
    {PyStr(Get(n, "id", Null)) :
        n \in {x \in Elems(list) : IsDict(x) /\ ~IsNone(Get(x, "id", Null))}}

\* the edge keys of a snapshot's edge list
EdgeKeysOf(list) == {edge_key(e) : e \in Elems(list)} \ {<<>>}

\* the common ids whose stripped values are equal
Unchanged(old_index, new_index) ==
    {k \in (DOMAIN old_index) \cap (DOMAIN new_index) :
        strip_ignored(old_index[k]) = strip_ignored(new_index[k])}

UnchangedNodes == Unchanged(cls.old_nodes, cls.new_nodes)

UnchangedEdges == Unchanged(cls.old_edges, cls.new_edges)

\* four classes are pairwise disjoint and cover olds and news, added being
\* what is only in news and removed what is only in olds
IsPartition(added, removed, modified, unchanged, olds, news) ==
    /\ added = news \ olds
    /\ removed = olds \ news
    /\ modified \cup unchanged = olds \cap news
    /\ added \cap removed = {} /\ added \cap modified = {}
    /\ added \cap unchanged = {} /\ removed \cap modified = {}
    /\ removed \cap unchanged = {} /\ modified \cap unchanged = {}
    /\ added \cup removed \cup modified \cup unchanged = olds \cup news

\* C1: the added, removed, modified and unchanged node ids are pairwise
\* disjoint and their union is the node ids of both snapshots; the same
\* holds of the four classes of edge keys.
C1_Partition ==
    Classified =>
        /\ IsPartition(cls.added_nodes, cls.removed_nodes, cls.modified_nodes,
                       UnchangedNodes, NodeIdsOf(BeforeNodes), NodeIdsOf(AfterNodes))
        /\ IsPartition(cls.added_edges, cls.removed_edges, cls.modified_edges,
                       UnchangedEdges, EdgeKeysOf(BeforeEdges), EdgeKeysOf(AfterEdges))

\* a diff with an added and a modified node, a removed and an unchanged edge
C1_Witness ==
    /\ Classified
    /\ cls.added_nodes # {} /\ cls.modified_nodes # {}
    /\ cls.removed_edges # {} /\ UnchangedEdges # {}

RECURSIVE CosmeticallyEqual(_, _)
\* a and b are equal or differ only in the values or the presence of
\* ignored keys, at any depth
CosmeticallyEqual(a, b) ==
    /\ a.tag = b.tag
    /\ a.s = b.s
    /\ (DOMAIN a.m) \ IGNORED_KEYS = (DOMAIN b.m) \ IGNORED_KEYS
    /\ \A k \in (DOMAIN a.m) \ IGNORED_KEYS : CosmeticallyEqual(a.m[k], b.m[k])
    /\ Len(a.l) = Len(b.l)
    /\ \A i \in 1..Len(a.l) : CosmeticallyEqual(a.l[i], b.l[i])

\* C2: when the after document equals the before document or differs from it
\* only in ignored keys, every common node and edge is unchanged and the
\* call returns None.
C2_CosmeticInvariance ==
    (Classified /\ CosmeticallyEqual(before_data, after_data)) =>
        /\ pc = "returned" /\ result = "None"
        /\ cls.modified_nodes = {} /\ cls.modified_edges = {}
        /\ UnchangedNodes = NodeIdsOf(BeforeNodes) \cup NodeIdsOf(AfterNodes)
        /\ UnchangedEdges = EdgeKeysOf(BeforeEdges) \cup EdgeKeysOf(AfterEdges)

\* two documents whose node A and whose edge A->B differ in layout only
C2_Witness ==
    /\ pc = "returned"
    /\ CosmeticallyEqual(before_data, after_data)
    /\ \E k \in UnchangedNodes : cls.old_nodes[k] # cls.new_nodes[k]
    /\ \E k \in UnchangedEdges : cls.old_edges[k] # cls.new_edges[k]

\* the ids of the three nodes of scenario B and the keys of its two edges
ScnA == PyStr(Get(AfterNodes[1], "id", Null))

ScnB == PyStr(Get(AfterNodes[2], "id", Null))

ScnC == PyStr(Get(AfterNodes[3], "id", Null))

ScnKeyAB == edge_key(AfterEdges[1])

ScnKeyBC == edge_key(AfterEdges[2])

\* the keys of the rendered edge list
RenderedKeys ==
    {sel.edges_to_draw_list[i].key : i \in 1..Len(sel.edges_to_draw_list)}

\* C3 as stated: in scenario B the added nodes are {C}, the added edges
\* {B->C}, the render node set {A, B, C}, and the rendered edge list holds
\* A->B as an unstyled context edge and B->C as an added edge.
C3_ScenarioB_AsStated ==
    pc = "returned" =>
        /\ result = "diagram"
        /\ cls.added_nodes = {ScnC}
        /\ cls.added_edges = {ScnKeyBC}
        /\ sel.nodes_to_draw = {ScnA, ScnB, ScnC}
        /\ ScnKeyAB \in RenderedKeys
        /\ ScnKeyAB \notin cls.added_edges \cup cls.removed_edges \cup cls.modified_edges
        /\ ScnKeyBC \in RenderedKeys

\* C3, amended: in scenario B the added nodes are {C}, the added edges
\* {B->C}, nothing is removed or modified, the render node set is {B, C},
\* and the rendered edge list is B->C alone, drawn as an added edge between
\* the unstyled node B and the added node C; A and A->B are not drawn.
C3_ScenarioB ==
    pc = "returned" =>
        /\ result = "diagram"
        /\ cls.added_nodes = {ScnC}
        /\ cls.added_edges = {ScnKeyBC}
        /\ cls.removed_nodes = {} /\ cls.modified_nodes = {}
        /\ cls.removed_edges = {} /\ cls.modified_edges = {}
        /\ sel.nodes_to_draw = {ScnB, ScnC}
        /\ Len(sel.edges_to_draw_list) = 1
        /\ sel.edges_to_draw_list[1].key = ScnKeyBC
        /\ sel.edges_to_draw_list[1].edge = AfterEdges[2]
        /\ {<<out.node_lines[i].ident, out.node_lines[i].node_class>> :
               i \in 1..Len(out.node_lines)}
           = {<<mermaid_id(ScnB), "">>, <<mermaid_id(ScnC), "added">>}
        /\ out.edge_lines = <<[source |-> mermaid_id(ScnB), target |-> mermaid_id(ScnC)]>>
        /\ out.link_styles = <<[index |-> 0, stroke |-> "#10B981", dashed |-> FALSE]>>

\* the diagram of scenario B has been returned
C3_Witness ==
    /\ pc = "returned" /\ result = "diagram"
    /\ Len(BeforeNodes) = 2 /\ Len(AfterNodes) = 3
    /\ Len(BeforeEdges) = 1 /\ Len(AfterEdges) = 2
    /\ ScnC \in cls.added_nodes

\* the six classes of changes are all empty
AllClassesEmpty ==
    cls.added_nodes \cup cls.removed_nodes \cup cls.modified_nodes
    \cup cls.added_edges \cup cls.removed_edges \cup cls.modified_edges = {}

\* the diff found a structural change and has selected what to draw
Selected == pc = "returned" /\ ~AllClassesEmpty

\* the keys of the dict edges of a list with an endpoint among ids
KeysAround(list, ids) ==
    {edge_key(e) : e \in {x \in Elems(list) :
                            IsDict(x) /\ (SourceStr(x) \in ids \/ TargetStr(x) \in ids)}}

\* the keys of the after edges at an added or modified node and of the
\* before edges at a removed node
ContextKeys ==
    KeysAround(AfterEdges, cls.added_nodes \cup cls.modified_nodes)
    \cup KeysAround(BeforeEdges, cls.removed_nodes)

\* the version of key k in a snapshot's edge list (the last, if several),
\* None when there is none
VersionIn(list, k) ==
    LET at == {i \in 1..Len(list) : edge_key(list[i]) = k}
    IN  IF at = {} THEN Null ELSE list[CHOOSE i \in at : \A j \in at : j <= i]

\* the instance drawn for key k: the before version of a removed key, else
\* the after version unless that is absent or the empty mapping, else the
\* before version
ChosenEdge(k) ==
    IF k \in cls.removed_edges
    THEN VersionIn(BeforeEdges, k)
    ELSE IF VersionIn(AfterEdges, k) \notin {Null, EmptyMap}
    THEN VersionIn(AfterEdges, k)
    ELSE VersionIn(BeforeEdges, k)

\* C4 as stated: whenever there is a structural change, every context key
\* is among the rendered keys, and the rendered keys are exactly the added,
\* removed, modified and context keys.
C4_ContextEdges_AsStated ==
    Selected =>
        /\ ContextKeys \subseteq RenderedKeys
        /\ RenderedKeys = cls.added_edges \cup cls.removed_edges
                          \cup cls.modified_edges \cup ContextKeys

\* C4, amended: whenever there is a structural change, the rendered keys
\* are exactly the added, removed, modified and context keys whose drawn
\* instance is a non-empty mapping (the context keys being rendered also
\* when the key is classified unchanged), each with that instance.
C4_ContextEdges ==
    Selected =>
        /\ RenderedKeys =
              {k \in cls.added_edges \cup cls.removed_edges
                     \cup cls.modified_edges \cup ContextKeys :
                  ChosenEdge(k) \notin {Null, EmptyMap}}
        /\ \A i \in 1..Len(sel.edges_to_draw_list) :
              sel.edges_to_draw_list[i].edge = ChosenEdge(sel.edges_to_draw_list[i].key)

\* an unchanged edge is rendered because it touches a modified node
C4_Witness ==
    /\ Selected
    /\ \E k \in RenderedKeys \cap UnchangedEdges :
          \E n \in cls.modified_nodes :
             SourceStr(ChosenEdge(k)) = n \/ TargetStr(ChosenEdge(k)) = n

\* C5 as stated: None is returned if and only if the added, removed and
\* modified sets are all empty for nodes and for edges.
C5_NoneIffNoChange_AsStated ==
    pc = "returned" => (result = "None" <=> AllClassesEmpty)

\* no node is changed and no edge to draw has a source or a target
NothingToDraw ==
    /\ cls.added_nodes \cup cls.removed_nodes \cup cls.modified_nodes = {}
    /\ \A k \in cls.added_edges \cup cls.removed_edges \cup cls.modified_edges :
          /\ IsNone(Get(ChosenEdge(k), "source", Null))
          /\ IsNone(Get(ChosenEdge(k), "target", Null))

\* C5, amended: None is returned if and only if the added, removed and
\* modified sets are all empty, or no node is changed and none of the edges
\* selected for drawing has a source or a target; otherwise a diagram is
\* returned.
C5_NoneIffNothingToDraw ==
    pc = "returned" =>
        /\ result \in {"None", "diagram"}
        /\ result = "None" <=> (AllClassesEmpty \/ NothingToDraw)

\* None is returned although an edge key is classified as changed
C5_Witness ==
    /\ pc = "returned" /\ result = "None"
    /\ cls.added_edges \cup cls.removed_edges \cup cls.modified_edges # {}

\* the value at workflow.graph.<part> of a root value, Null when the path
\* is missing at any level
PartAt(root, part) ==
    LET workflow == IF IsDict(root) THEN Get(root, "workflow", Null) ELSE Null
        graph    == IF IsDict(workflow) THEN Get(workflow, "graph", Null) ELSE Null
    IN  IF IsDict(graph) THEN Get(graph, part, Null) ELSE Null

\* the sequence at workflow.graph.<part>, empty when the path is missing or
\* what is found there is not a sequence
ExpectedPart(root, part) ==
    IF IsList(PartAt(root, part)) THEN PartAt(root, part).l ELSE <<>>

\* C6: for every root value get_graph_data returns a pair of sequences
\* without raising, a part being empty whenever its path is missing at any
\* level or the value found there is not a sequence.
C6_ExtractionNeverRaises ==
    pc # "call" =>
        /\ ~extracted.raised
        /\ extracted.nodes = ExpectedPart(data, "nodes")
        /\ extracted.edges = ExpectedPart(data, "edges")

\* the keys of a snapshot's edge list are pairwise distinct, and each edge
\* is a mapping with a source and a target
WellFormedEdges(list) ==
    /\ \A i, j \in 1..Len(list) : i # j => edge_key(list[i]) # edge_key(list[j])
    /\ \A i \in 1..Len(list) :
          /\ IsDict(list[i])
          /\ Truthy(Get(list[i], "source", Null))
          /\ Truthy(Get(list[i], "target", Null))

\* node id n is an endpoint of an edge of the list
IsEndpointIn(n, list) ==
    \E e \in Elems(list) : IsDict(e) /\ (SourceStr(e) = n \/ TargetStr(e) = n)

\* the diagram has an edge declaration with node id n as source or target
HasEdgeLine(n) ==
    \E i \in 1..Len(out.edge_lines) :
        out.edge_lines[i].source = mermaid_id(n) \/ out.edge_lines[i].target = mermaid_id(n)

\* C7: with unique edge keys in each snapshot and edges that carry a source
\* and a target, every added or modified node that is an endpoint of an
\* after edge, and every removed node that is an endpoint of a before edge,
\* has an edge declaration in the emitted diagram.
C7_ChangedNodesConnected ==
    (pc = "returned" /\ WellFormedEdges(BeforeEdges) /\ WellFormedEdges(AfterEdges)) =>
        /\ \A n \in cls.added_nodes \cup cls.modified_nodes :
              IsEndpointIn(n, AfterEdges) => (result = "diagram" /\ HasEdgeLine(n))
        /\ \A n \in cls.removed_nodes :
              IsEndpointIn(n, BeforeEdges) => (result = "diagram" /\ HasEdgeLine(n))

\* a diagram has been returned
DiagramReturned == pc = "returned" /\ result = "diagram"

\* the sources and targets, as str, that the rendered edges have
RenderedEndpoints ==
    LET list == sel.edges_to_draw_list
    IN  UNION {{PyStr(list[i].edge.m[end]) :
                   end \in {x \in {"source", "target"} :
                              /\ x \in DOMAIN list[i].edge.m
                              /\ ~IsNone(list[i].edge.m[x])}} :
               i \in 1..Len(list)}

\* the ids of the nodes of either snapshot
KnownNodeIds == NodeIdsOf(BeforeNodes) \cup NodeIdsOf(AfterNodes)

\* the class of a node id: "added", "removed", "modified", "" for unchanged
NodeClass(n) == ClassOf(n, cls.added_nodes, cls.removed_nodes, cls.modified_nodes)

\* the node declarations of node id n in the emitted diagram
NodeLinesOf(n) ==
    {i \in 1..Len(out.node_lines) : out.node_lines[i].ident = mermaid_id(n)}

\* C8 as stated: the render node set is the added, removed and modified
\* node ids plus the endpoints of the rendered edges, and the diagram holds
\* exactly one node declaration for every id of the render set, tagged with
\* the node's class and untagged for an unchanged context node.
C8_NodeDeclarations_AsStated ==
    DiagramReturned =>
        /\ sel.nodes_to_draw = cls.added_nodes \cup cls.removed_nodes
                               \cup cls.modified_nodes \cup RenderedEndpoints
        /\ Len(out.node_lines) = Cardinality(sel.nodes_to_draw)
        /\ \A n \in sel.nodes_to_draw :
              /\ Cardinality(NodeLinesOf(n)) = 1
              /\ \A i \in NodeLinesOf(n) : out.node_lines[i].node_class = NodeClass(n)

\* C8, amended: the render node set is the added, removed and modified node
\* ids plus the endpoints of the rendered edges, and the diagram holds
\* exactly one node declaration for every id of the render set that is the
\* id of a node of either snapshot, tagged with the node's class and
\* untagged for an unchanged context node, and none for an endpoint that
\* names no node of either snapshot.
C8_NodeDeclarations ==
    DiagramReturned =>
        /\ sel.nodes_to_draw = cls.added_nodes \cup cls.removed_nodes
                               \cup cls.modified_nodes \cup RenderedEndpoints
        /\ Len(out.node_lines) = Cardinality(sel.nodes_to_draw \cap KnownNodeIds)
        /\ \A n \in sel.nodes_to_draw \cap KnownNodeIds :
              /\ Cardinality(NodeLinesOf(n)) = 1
              /\ \A i \in NodeLinesOf(n) : out.node_lines[i].node_class = NodeClass(n)
        /\ \A n \in sel.nodes_to_draw \ KnownNodeIds : NodeLinesOf(n) = {}

\* a diagram with an untagged context node and an edge endpoint that names
\* no node
C8_Witness ==
    /\ DiagramReturned
    /\ sel.nodes_to_draw \ KnownNodeIds # {}
    /\ \E n \in sel.nodes_to_draw \cap KnownNodeIds : NodeClass(n) = ""

\* the rendered edges that get an edge declaration: those with a non-empty
\* source and target
EmittedEdges ==
    LET Complete(x) == SourceStr(x.edge) # <<>> /\ TargetStr(x.edge) # <<>>
    IN  SelectSeq(sel.edges_to_draw_list, Complete)

\* the class of an edge key: "added", "removed", "modified", "" for unchanged
EdgeClass(k) == ClassOf(k, cls.added_edges, cls.removed_edges, cls.modified_edges)

\* the style a linkStyle directive gives
StyleOf(directive) ==
    CASE directive.stroke = "#10B981" /\ ~directive.dashed -> "added"
      [] directive.stroke = "#EF4444" /\ directive.dashed  -> "removed"
      [] directive.stroke = "#F59E0B" /\ ~directive.dashed -> "modified"
      [] OTHER -> "unknown"

\* the linkStyle directives that refer to the edge declaration at index i
DirectivesAt(i) ==
    {d \in 1..Len(out.link_styles) : out.link_styles[d].index = i}

\* C9: in a returned diagram the edge declarations are those of the
\* rendered edges that have a source and a target, in order; every
\* linkStyle index is that of an edge declaration whose key has the class of
\* the directive's style; an emitted edge with an added, removed or modified
\* key has exactly one directive and an emitted context edge has none, also
\* when rendered edges are skipped as malformed.
C9_LinkStyleCoupling ==
    DiagramReturned =>
        /\ Len(out.edge_lines) = Len(EmittedEdges)
        /\ \A i \in 1..Len(EmittedEdges) :
              /\ out.edge_lines[i].source = mermaid_id(SourceStr(EmittedEdges[i].edge))
              /\ out.edge_lines[i].target = mermaid_id(TargetStr(EmittedEdges[i].edge))
              /\ Cardinality(DirectivesAt(i - 1))
                 = IF EdgeClass(EmittedEdges[i].key) = "" THEN 0 ELSE 1
        /\ \A d \in 1..Len(out.link_styles) :
              /\ out.link_styles[d].index >= 0
              /\ out.link_styles[d].index < Len(out.edge_lines)
              /\ StyleOf(out.link_styles[d])
                 = EdgeClass(EmittedEdges[out.link_styles[d].index + 1].key)

\* a diagram in which a malformed edge is skipped before a styled edge, and
\* which also draws an unstyled context edge
C9_Witness ==
    /\ DiagramReturned
    /\ \E i, j \in 1..Len(sel.edges_to_draw_list) :
          /\ i < j
          /\ TargetStr(sel.edges_to_draw_list[i].edge) = <<>>
          /\ TargetStr(sel.edges_to_draw_list[j].edge) # <<>>
          /\ EdgeClass(sel.edges_to_draw_list[j].key) # ""
    /\ \E i \in 1..Len(EmittedEdges) : EdgeClass(EmittedEdges[i].key) = ""

RECURSIVE IsCanonicalOf(_, _)
\* w is v without its ignored keys: the same scalar; a sequence of the same
\* length whose elements are those of v without their ignored keys, in
\* place; a mapping with the keys of v that are not ignored, each with the
\* value of v without its ignored keys
IsCanonicalOf(w, v) ==
    /\ w.tag = v.tag
    /\ w.s = v.s
    /\ DOMAIN w.m = (DOMAIN v.m) \ IGNORED_KEYS
    /\ \A k \in DOMAIN w.m : IsCanonicalOf(w.m[k], v.m[k])
    /\ Len(w.l) = Len(v.l)
    /\ \A i \in 1..Len(w.l) : IsCanonicalOf(w.l[i], v.l[i])

RECURSIVE HasIgnoredKey(_)
\* an ignored key occurs in v, at any depth
HasIgnoredKey(v) ==
    \/ (DOMAIN v.m) \cap IGNORED_KEYS # {}
    \/ \E k \in DOMAIN v.m : HasIgnoredKey(v.m[k])
    \/ \E i \in 1..Len(v.l) : HasIgnoredKey(v.l[i])

\* C10: strip_ignored(v) contains no ignored key at any depth, keeps every
\* other mapping key, every sequence position and every scalar, and
\* stripping it again returns an equal value.
C10_StripCompleteIdempotent ==
    pc = "returned" =>
        /\ ~HasIgnoredKey(stripped.once)
        /\ IsCanonicalOf(stripped.once, value)
        /\ stripped.twice = stripped.once

\* a value with an ignored key below its top level has been stripped
C10_Witness ==
    /\ pc = "returned"
    /\ \/ \E k \in DOMAIN value.m : HasIgnoredKey(value.m[k])
       \/ \E i \in 1..Len(value.l) : HasIgnoredKey(value.l[i])
    /\ stripped.once # value

\* the edge has a value under key k that is neither None nor ""
HasEndpoint(edge, k) ==
    /\ k \in DOMAIN edge.m
    /\ edge.m[k] \notin {Null, EmptyStr}

\* the rendered edges that have a source and a target
CompleteEdges ==
    LET Complete(x) == HasEndpoint(x.edge, "source") /\ HasEndpoint(x.edge, "target")
    IN  SelectSeq(sel.edges_to_draw_list, Complete)

\* C11: the call does not raise, and in a returned diagram the edge
\* declarations are exactly those of the rendered edges whose source and
\* target are present, not null and not the empty string, in order, each
\* with one linkStyle directive when its key is added, removed or modified
\* and none otherwise; a rendered edge with no source or no target gets no
\* edge declaration and no linkStyle directive.
C11_MalformedSkipped ==
    /\ pc # "raised"
    /\ DiagramReturned =>
          /\ Len(out.edge_lines) = Len(CompleteEdges)
          /\ \A i \in 1..Len(CompleteEdges) :
                /\ i <= Len(out.edge_lines)
                /\ out.edge_lines[i].source = mermaid_id(SourceStr(CompleteEdges[i].edge))
                /\ out.edge_lines[i].target = mermaid_id(TargetStr(CompleteEdges[i].edge))
          /\ Len(out.link_styles)
             = Cardinality({i \in 1..Len(CompleteEdges) : EdgeClass(CompleteEdges[i].key) # ""})

============================================================================
